---- MODULE Spec2Model ----
(***************************************************************************)
(* Streaming transcription pipeline of rs-voice-toolkit                    *)
(* (stt/src/streaming.rs): the bounded audio buffer, the LocalAgreement-n  *)
(* aggregator and the two-task orchestrator.                               *)
(*                                                                         *)
(* Seven specifications share the module:                                  *)
(*   SpecBuf  - AudioBuffer driven by arbitrary push_samples calls         *)
(*   SpecAgg  - StreamingAggregator driven by arbitrary hypotheses         *)
(*   Spec     - StreamingTranscriber with its ingestion / recognition tasks*)
(*   SpecFair - Spec with the tasks scheduled fairly (liveness)            *)
(*   SpecCfg  - Spec with set_vad_enabled / set_vad_threshold calls        *)
(*   SpecRes  - StreamingResampler and resample (audio/src/lib.rs)         *)
(*   SpecVad  - SimpleVad (stt/src/vad.rs) called on arbitrary slices      *)
(***************************************************************************)
EXTENDS Integers, Sequences, FiniteSets, TLC

VARIABLES
    buf,        \* SpecBuf: the AudioBuffer under test [samples, sample_rate, max_samples]
    pushed,     \* SpecBuf: concatenation of every slice given to push_samples
    agg,        \* SpecAgg: the StreamingAggregator [last_texts, confirmed_prefix, n]
    agg_ret,    \* SpecAgg: what the last push_and_confirm returned
    agg_hist,   \* SpecAgg: observation of the session so far
    config,     \* StreamingTranscriber.config and .vad
    buffer,     \* StreamingTranscriber.buffer: the shared AudioBuffer
    locks,      \* holders of the two mutexes: buffer and is_running
    is_running, \* StreamingTranscriber.is_running: the shared flag
    senders,    \* .event_sender and .audio_sender: the session they belong to, 0 = None
    handles,    \* .audio_task_handle and .transcription_task_handle, 0 = None
    chan,       \* per session: the chunks queued in the audio channel
    events,     \* per session: the events sent on the event channel
    audio,      \* per session: the ingestion task
    rec,        \* per session: the recognition task
    caller,     \* the thread that owns the StreamingTranscriber
    res,        \* SpecRes: what StreamingResampler::new returned
    res_ret,    \* SpecRes: what the last process_chunk or finalize returned
    res_hist,   \* SpecRes: the last call and the state before it
    batch_call, \* SpecRes: the last call of the batch function resample
    vad_det,    \* SpecVad: the SimpleVad under test
    vad_call    \* SpecVad: the last call made on it and what it returned

bufVars == <<buf, pushed>>
aggVars == <<agg, agg_ret, agg_hist>>
objVars == <<config, is_running, senders, handles>>
taskVars == <<chan, events, audio, rec>>
orchVars == <<objVars, buffer, locks, taskVars, caller>>
resVars == <<res, res_ret, res_hist, batch_call>>
vadVars == <<vad_det, vad_call>>
vars == <<bufVars, aggVars, orchVars, resVars, vadVars>>

----------------------------------------------------------------------------
(* Bounds of the model *)

\* longest slice handed to one push_samples call
MaxChunk == 3
\* total number of samples pushed in one run of SpecBuf
MaxPushed == 5
\* sample rates tried, in samples per second: 0..MaxRate
MaxRate == 2
\* buffer durations tried, in half seconds: 0..MaxHalfSecs
MaxHalfSecs == 3
\* calls of push_and_confirm in one run of SpecAgg
MaxCalls == 4
\* StreamingConfig::default().local_agreement_n; window sizes 0..DefaultN are tried
DefaultN == 3
\* start_streaming calls in one run of Spec (one session each)
MaxStarts == 2
\* push_audio calls in one run of Spec
MaxPushes == 3
\* snapshots the recognition tasks take in one run of Spec
MaxPasses == 2
\* push_audio calls plus snapshots in a run of Spec that starts a second session
MaxRestartWork == 1
\* capacity of the shared buffer, in samples
BufferSamples == 2
\* transcription_interval and silence_timeout, in recognition ticks of 50 ms
IntervalTicks == 2
SilenceTicks == 3
\* the longest a sleep or a recognition call may overrun, in ticks
MaxLateTicks == 1
\* the longest min_audio_length, in samples
MinAudioSamples == 2
\* the longest max_audio_length, in samples (longer than the buffer)
MaxAudioSamples == 3
\* longest chunk given to one push_audio call
MaxPushLen == 1
\* MAX_BATCH_SIZE (8192 in the source), scaled to the chunk sizes of the model
MAX_BATCH_SIZE == 2
\* chunk_size of StreamingResampler (1024 in the source), scaled likewise
ChunkSize == 2
\* sample rates given to the resamplers: 0..MaxResRate
MaxResRate == 2
\* longest input of one process_chunk or resample call
MaxResInput == 4
\* process_chunk and finalize calls in one run of SpecRes
MaxResCalls == 3
\* set_vad_enabled and set_vad_threshold calls in one run of SpecCfg
MaxSetCalls == 2
\* start_streaming and push_audio calls in one run of SpecCfg
MaxCfgStarts == 1
MaxCfgPushes == 2
\* a threshold no sample of the model exceeds
LoudThreshold == 2
\* SpecVad: the longest window of a detector in samples, the longest slice
\* given to it, and the largest amplitude and threshold
MaxVadWindow == 2
MaxVadLen == 5
MaxVadAmp == 2

----------------------------------------------------------------------------
(* Helpers *)

Min(a, b) == IF a < b THEN a ELSE b
Max(a, b) == IF a > b THEN a ELSE b

\* the last k elements of s
LastK(s, k) == SubSeq(s, Len(s) - Min(k, Len(s)) + 1, Len(s))

\* sample amplitudes: 0 is digital silence, 1 is a loud sample
SampleVals == {0, 1}

RECURSIVE SeqsUpTo(_, _)
SeqsUpTo(S, k) ==
    IF k = 0 THEN {<<>>}
    ELSE LET shorter == SeqsUpTo(S, k - 1)
         IN  shorter \cup {Append(s, x) : s \in shorter, x \in S}

----------------------------------------------------------------------------
(* AudioBuffer  (streaming.rs 76-128) *)

\* AudioBuffer::new: max_samples = (sample_rate as f64 * max_duration.as_secs_f64()) as usize
\* durations are counted in half seconds, so the cast truncates
AudioBufferNew(sample_rate, half_secs) ==
    [samples |-> <<>>,
     sample_rate |-> sample_rate,
     max_samples |-> (sample_rate * half_secs) \div 2]

\* one iteration of the loop of push_samples: pop the front if full, then push_back
PushOne(b, sample) ==
    LET kept == IF Len(b.samples) >= b.max_samples
                THEN (IF b.samples = <<>> THEN <<>> ELSE Tail(b.samples))
                ELSE b.samples
    IN  [b EXCEPT !.samples = Append(kept, sample)]

RECURSIVE PushSamples(_, _)
PushSamples(b, new_samples) ==
    IF new_samples = <<>> THEN b
    ELSE PushSamples(PushOne(b, Head(new_samples)), Tail(new_samples))

\* a read that returns only the oldest sample
GetOldestSample(b) == SubSeq(b.samples, 1, Min(1, Len(b.samples)))

\* get_all_samples: every sample, oldest first
GetAllSamples(b) == b.samples

BufferClear(b) == [b EXCEPT !.samples = <<>>]

----------------------------------------------------------------------------
(* Text: a Rust String is its UTF-8 bytes.  The alphabet has two ASCII      *)
(* bytes and two two-byte characters that share their lead byte.           *)

\* "a", "b", " ", and U+00E9 / U+00E8 (C3 A9 / C3 A8)
CharA == <<97>>
CharB == <<98>>
CharSpace == <<32>>
CharE1 == <<195, 169>>
CharE2 == <<195, 168>>

IsWhitespace(byte) == byte = 32

IsContinuation(byte) == byte >= 128 /\ byte <= 191

\* String::from_utf8 accepts exactly the well-formed sequences
RECURSIVE IsUtf8(_)
IsUtf8(bytes) ==
    IF bytes = <<>> THEN TRUE
    ELSE IF Head(bytes) < 128 THEN IsUtf8(Tail(bytes))
    ELSE IF Head(bytes) >= 194 /\ Head(bytes) <= 223
         THEN /\ Len(bytes) >= 2
              /\ IsContinuation(bytes[2])
              /\ IsUtf8(Tail(Tail(bytes)))
    ELSE FALSE

\* str::is_char_boundary(index), index counted in bytes from 0
IsCharBoundary(s, index) ==
    \/ index = 0
    \/ index = Len(s)
    \/ (index < Len(s) /\ ~IsContinuation(s[index + 1]))

RECURSIVE TrimStart(_)
TrimStart(s) ==
    IF s # <<>> /\ IsWhitespace(Head(s)) THEN TrimStart(Tail(s)) ELSE s

RECURSIVE TrimEnd(_)
TrimEnd(s) ==
    IF s # <<>> /\ IsWhitespace(s[Len(s)]) THEN TrimEnd(SubSeq(s, 1, Len(s) - 1)) ELSE s

\* str::trim removes leading and trailing whitespace
Trim(s) == TrimEnd(TrimStart(s))

IsPrefix(p, s) == Len(p) <= Len(s) /\ SubSeq(s, 1, Len(p)) = p

\* the common byte prefix of two byte strings (the inner while loop)
RECURSIVE CommonBytes(_, _)
CommonBytes(prefix, bytes) ==
    IF prefix # <<>> /\ bytes # <<>> /\ Head(prefix) = Head(bytes)
    THEN <<Head(prefix)>> \o CommonBytes(Tail(prefix), Tail(bytes))
    ELSE <<>>

RECURSIVE FoldCommonBytes(_, _)
FoldCommonBytes(prefix, rest) ==
    IF rest = <<>> \/ prefix = <<>> THEN prefix
    ELSE FoldCommonBytes(CommonBytes(prefix, Head(rest)), Tail(rest))

\* the byte-wise longest common prefix, before the conversion back to a String
BytePrefix(texts) ==
    IF texts = <<>> THEN <<>> ELSE FoldCommonBytes(Head(texts), Tail(texts))

\* StreamingAggregator::longest_common_prefix:
\* String::from_utf8(prefix).unwrap_or_default()
LongestCommonPrefix(texts) ==
    LET prefix == BytePrefix(texts)
    IN  IF IsUtf8(prefix) THEN prefix ELSE <<>>

----------------------------------------------------------------------------
(* StreamingAggregator  (streaming.rs 132-191) *)

None == [some |-> FALSE, text |-> <<>>]
Some(text) == [some |-> TRUE, text |-> text]

\* StreamingAggregator::new
AggregatorNew(n) ==
    [last_texts |-> <<>>, confirmed_prefix |-> <<>>, n |-> Max(n, 2)]

\* a window that never evicts
PushWindowNoEvict(a, latest) == Append(a.last_texts, latest)

\* the window after push_back(latest) and the pop_front on overflow
PushWindow(a, latest) ==
    LET appended == Append(a.last_texts, latest)
    IN  IF Len(appended) > a.n THEN Tail(appended) ELSE appended

\* a window that always counts as full
WindowShortNever(window, n) == FALSE

\* if self.last_texts.len() < self.n { return None; }
WindowShort(window, n) == Len(window) < n

\* push_and_confirm returning the whole confirmed text instead of the addition
PushAndConfirmWholeText(a, latest) ==
    LET window == PushWindow(a, latest)
        pushed_a == [a EXCEPT !.last_texts = window]
        lcp_trimmed == Trim(LongestCommonPrefix(window))
    IN  IF Len(window) >= a.n /\ Len(lcp_trimmed) > Len(a.confirmed_prefix)
        THEN [agg |-> [pushed_a EXCEPT !.confirmed_prefix = lcp_trimmed],
              ret |-> Some(lcp_trimmed), panic |-> FALSE]
        ELSE [agg |-> pushed_a, ret |-> None, panic |-> FALSE]

\* push_and_confirm adopting the LCP of a full window whenever it differs
\* from confirmed_prefix, shorter or not
PushAndConfirmOnAnyChange(a, latest) ==
    LET window == PushWindow(a, latest)
        pushed_a == [a EXCEPT !.last_texts = window]
        lcp_trimmed == Trim(LongestCommonPrefix(window))
        from == Len(a.confirmed_prefix)
        addition == SubSeq(lcp_trimmed, from + 1, Len(lcp_trimmed))
    IN  IF Len(window) >= a.n /\ lcp_trimmed # a.confirmed_prefix
        THEN [agg |-> [pushed_a EXCEPT !.confirmed_prefix = lcp_trimmed],
              ret |-> IF addition = <<>> THEN None ELSE Some(addition),
              panic |-> FALSE]
        ELSE [agg |-> pushed_a, ret |-> None, panic |-> FALSE]

\* an addition that starts one byte early, repeating the last confirmed byte
AdditionOverlapping(lcp_trimmed, from) ==
    SubSeq(lcp_trimmed, Max(from, 1), Len(lcp_trimmed))

\* let addition = &lcp_trimmed[self.confirmed_prefix.len()..]
Addition(lcp_trimmed, from) == SubSeq(lcp_trimmed, from + 1, Len(lcp_trimmed))

\* push_and_confirm: the aggregator afterwards, the value returned, and whether
\* the slice &lcp_trimmed[confirmed_prefix.len()..] panicked (it does when the
\* offset is not a character boundary; the window is already updated then)
PushAndConfirm(a, latest) ==
    LET window == PushWindow(a, latest)
        pushed_a == [a EXCEPT !.last_texts = window]
        lcp_trimmed == Trim(LongestCommonPrefix(window))
        from == Len(a.confirmed_prefix)
    IN  IF WindowShort(window, a.n)
        THEN [agg |-> pushed_a, ret |-> None, panic |-> FALSE]
        ELSE IF Len(lcp_trimmed) > from
        THEN IF ~IsCharBoundary(lcp_trimmed, from)
             THEN [agg |-> pushed_a, ret |-> None, panic |-> TRUE]
             ELSE LET addition == Addition(lcp_trimmed, from)
                  IN  [agg |-> [pushed_a EXCEPT !.confirmed_prefix = lcp_trimmed],
                       ret |-> IF addition = <<>> THEN None ELSE Some(addition),
                       panic |-> FALSE]
        ELSE [agg |-> pushed_a, ret |-> None, panic |-> FALSE]

----------------------------------------------------------------------------
(* SimpleVad  (vad.rs 14-78) *)

\* a threshold is a fraction num / den with den > 0; amplitudes are integers
\* StreamingConfig::default().vad_threshold is 0.005
DefaultThreshold == [num |-> 5, den |-> 1000]

\* SimpleVad::new_with_sample_rate: any threshold and any rate are taken;
\* window_size = (sample_rate as f64 * 0.02) as usize
SimpleVadNew(threshold, sample_rate) ==
    [some |-> TRUE, threshold |-> threshold,
     window_size |-> (sample_rate * 2) \div 100, sample_rate |-> sample_rate]
NoVad == [some |-> FALSE, threshold |-> DefaultThreshold, window_size |-> 0,
          sample_rate |-> 0]

RECURSIVE SumSquares(_)
SumSquares(samples) ==
    IF samples = <<>> THEN 0
    ELSE Head(samples) * Head(samples) + SumSquares(Tail(samples))

\* a comparison that also accepts an RMS equal to the threshold
RmsAboveOrEqual(samples, threshold) ==
    \/ threshold.num < 0
    \/ SumSquares(samples) * threshold.den * threshold.den
           >= threshold.num * threshold.num * Len(samples)

\* calculate_rms(samples) > threshold for non-empty samples: the RMS,
\* sqrt(sum_squares / len), is not negative, so it is above every negative
\* threshold; otherwise the squares are compared
RmsAbove(samples, threshold) ==
    \/ threshold.num < 0
    \/ SumSquares(samples) * threshold.den * threshold.den
           > threshold.num * threshold.num * Len(samples)

\* SimpleVad::detect_speech
DetectSpeech(vad, samples) ==
    /\ samples # <<>>
    /\ RmsAbove(samples, vad.threshold)

\* the sample_index at which window i closes an open segment
SegmentEnd(vad, i) == i * vad.window_size

\* the for loop of detect_speech_segments over samples.chunks(window_size),
\* from window i on, and the push of a segment still open at the end
RECURSIVE ScanWindows(_, _, _, _, _, _)
ScanWindows(vad, samples, i, in_speech, speech_start, segments) ==
    IF i * vad.window_size >= Len(samples)
    THEN IF in_speech THEN Append(segments, <<speech_start, Len(samples)>>) ELSE segments
    ELSE LET chunk == SubSeq(samples, i * vad.window_size + 1,
                             Min((i + 1) * vad.window_size, Len(samples)))
             has_speech == DetectSpeech(vad, chunk)
         IN  IF has_speech /\ ~in_speech
             THEN ScanWindows(vad, samples, i + 1, TRUE, i * vad.window_size, segments)
             ELSE IF ~has_speech /\ in_speech
             THEN ScanWindows(vad, samples, i + 1, FALSE, speech_start,
                              Append(segments, <<speech_start, SegmentEnd(vad, i)>>))
             ELSE ScanWindows(vad, samples, i + 1, in_speech, speech_start, segments)

\* SimpleVad::detect_speech_segments: slice::chunks panics when window_size
\* is 0, whatever the slice
DetectSpeechSegments(vad, samples) ==
    IF vad.window_size = 0
    THEN [panic |-> TRUE, segments |-> <<>>]
    ELSE [panic |-> FALSE, segments |-> ScanWindows(vad, samples, 0, FALSE, 0, <<>>)]

----------------------------------------------------------------------------
(* StreamingTranscriber: the object and its two tasks per session           *)
(* (streaming.rs 193-486)                                                   *)

Sessions == 1..MaxStarts
\* local_agreement_n as configured: aggregation disabled (1) or enabled (2)
AgreementSettings == {1, 2}
Free == "free"
\* how a task ended: its loop ended, it returned from inside the loop, it was
\* cancelled, or it panicked
Terminated == {"done", "returned", "aborted", "panicked"}

Transcription(text) == [kind |-> "Transcription", text |-> text]
SpeechStart == [kind |-> "SpeechStart", text |-> <<>>]
SpeechEnd == [kind |-> "SpeechEnd", text |-> <<>>]
Silence == [kind |-> "Silence", text |-> <<>>]
ErrorEvent == [kind |-> "Error", text |-> <<>>]

\* what transcribe_audio_data may return: Ok with some text, or Err
ResultTexts == {<<>>, CharSpace, CharA, CharA \o CharA \o CharSpace}
Results == {[ok |-> TRUE, text |-> t] : t \in ResultTexts} \cup {[ok |-> FALSE, text |-> <<>>]}

\* the thresholds a caller gives to set_vad_threshold: the default, and one
\* above the loudest sample
SetThresholds == {DefaultThreshold, [num |-> LoudThreshold, den |-> 1]}

\* the chunks a caller pushes
AudioChunks == SeqsUpTo(SampleVals, MaxPushLen) \ {<<>>}

\* the scrutinee of the match on the result, outside the match
NoPass == [result |-> "none", text |-> <<>>]

AudioTaskUnborn == [pc |-> "unborn", batch |-> <<>>, abort |-> FALSE]

RecTaskUnborn ==
    [pc |-> "unborn", abort |-> FALSE, vad |-> NoVad, n |-> 0, min_audio |-> 0,
     speech_detected |-> FALSE, aggregator |-> AggregatorNew(0), snapshot |-> <<>>,
     elapsed |-> 0, silent_for |-> 0, passes |-> 0, last |-> NoPass,
     arrived |-> <<>>, mid |-> 0, cleared |-> FALSE]

\* the locals of the recognition task when it is spawned (streaming.rs 314-325);
\* arrived, mid and cleared observe the buffer from a recognition call of the
\* task to the end of its next one: the samples appended since the call began,
\* how many of them were appended during the call (0 once the next snapshot is
\* taken), and whether the buffer was cleared after one of them
RecTaskNew(cfg) ==
    [pc |-> "spawned", abort |-> FALSE, vad |-> cfg.vad, n |-> cfg.local_agreement_n,
     min_audio |-> cfg.min_audio,
     speech_detected |-> FALSE, aggregator |-> AggregatorNew(cfg.local_agreement_n),
     snapshot |-> <<>>, elapsed |-> 0, silent_for |-> 0, passes |-> 0, last |-> NoPass,
     arrived |-> <<>>, mid |-> 0, cleared |-> FALSE]

\* StreamingTranscriber::new with a configuration whose max_audio_length is
\* max_audio samples
TranscriberWith(enable_vad, n, min_audio, max_audio) ==
    /\ config = [enable_vad |-> enable_vad,
                 vad_threshold |-> DefaultThreshold,
                 vad |-> IF enable_vad
                         THEN SimpleVadNew(DefaultThreshold, BufferSamples) ELSE NoVad,
                 local_agreement_n |-> n,
                 min_audio |-> min_audio,
                 max_audio |-> max_audio]
    /\ buffer = AudioBufferNew(BufferSamples, 2)
    /\ locks = [buffer |-> Free, flag |-> Free]
    /\ is_running = FALSE
    /\ senders = [event |-> 0, audio |-> 0]
    /\ handles = [audio |-> 0, transcription |-> 0]
    /\ chan = [g \in Sessions |-> <<>>]
    /\ events = [g \in Sessions |-> <<>>]
    /\ audio = [g \in Sessions |-> AudioTaskUnborn]
    /\ rec = [g \in Sessions |-> RecTaskUnborn]
    /\ caller = [pc |-> "idle", starts |-> 0, pushes |-> 0, push_result |-> "none",
                 sets |-> 0]

\* StreamingTranscriber::new with max_audio_length longer than the buffer, as
\* in StreamingConfig::default() (30 s and 5 s)
TranscriberNew(enable_vad, n, min_audio) ==
    TranscriberWith(enable_vad, n, min_audio, MaxAudioSamples)

OrchIdle == TranscriberNew(FALSE, 0, 0)

\* the state of the instance as its caller sees it: Running while the flag is
\* set, Idle before the first start_streaming, Stopped after a stop
Phase ==
    IF is_running THEN "Running" ELSE IF caller.starts = 0 THEN "Idle" ELSE "Stopped"

\* JoinHandle::abort: a task that has not finished is cancelled at its next
\* suspension point
AbortTask(task) ==
    IF task.pc \in Terminated \cup {"unborn"} THEN task ELSE [task EXCEPT !.abort = TRUE]

\* snapshots taken so far by all recognition tasks
RECURSIVE PassesUpTo(_)
PassesUpTo(g) == IF g = 0 THEN 0 ELSE rec[g].passes + PassesUpTo(g - 1)
PassesTaken == PassesUpTo(MaxStarts)

\* push_audio calls and snapshots so far, and how many a run with so many
\* start_streaming calls may have
WorkDone == caller.pushes + PassesTaken
WorkAllowed(starts) == IF starts <= 1 THEN MaxPushes + MaxPasses ELSE MaxRestartWork

\* what a write of the ingestion task to the shared buffer means to a
\* recognition task: samples appended during its call, or after them
NoteArrival(task, batch) ==
    IF task.pc = "transcribing"
    THEN IF task.mid = 0
         THEN [task EXCEPT !.arrived = batch, !.mid = Len(batch), !.cleared = FALSE]
         ELSE [task EXCEPT !.arrived = @ \o batch, !.mid = @ + Len(batch)]
    ELSE IF task.mid > 0 /\ task.pc \notin Terminated
    THEN [task EXCEPT !.arrived = @ \o batch]
    ELSE task

\* what a clear of the shared buffer means to a recognition task
NoteClear(task) ==
    IF task.mid > 0 /\ task.pc \notin Terminated
    THEN [task EXCEPT !.cleared = TRUE] ELSE task

\* start_streaming: new channels, the flag set, both tasks spawned; the
\* previous senders and handles are overwritten (dropped)
StartStreaming ==
    /\ caller.pc = "idle"
    /\ caller.starts < MaxStarts
    /\ WorkDone <= WorkAllowed(caller.starts + 1)
    /\ locks.flag = Free
    /\ LET g == caller.starts + 1
       IN  /\ senders' = [event |-> g, audio |-> g]
           /\ is_running' = TRUE
           /\ handles' = [audio |-> g, transcription |-> g]
           /\ audio' = [audio EXCEPT ![g] = [pc |-> "spawned", batch |-> <<>>, abort |-> FALSE]]
           /\ rec' = [rec EXCEPT ![g] = RecTaskNew(config)]
           /\ caller' = [caller EXCEPT !.starts = g]
    /\ UNCHANGED <<bufVars, aggVars, vadVars, resVars, config, buffer, locks, chan, events>>

\* a stop_streaming that keeps audio_sender
StopStreamingKeepsSender ==
    /\ caller.pc = "idle"
    /\ locks.flag = Free
    /\ is_running' = FALSE
    /\ senders' = [senders EXCEPT !.event = 0]
    /\ audio' = [g \in Sessions |->
                    IF g = handles.audio THEN AbortTask(audio[g]) ELSE audio[g]]
    /\ rec' = [g \in Sessions |->
                    IF g = handles.transcription THEN AbortTask(rec[g]) ELSE rec[g]]
    /\ handles' = [audio |-> 0, transcription |-> 0]
    /\ UNCHANGED <<bufVars, aggVars, vadVars, resVars, config, buffer, locks, chan, events, caller>>

\* stop_streaming: the flag cleared, the senders dropped, both tasks aborted
StopStreaming ==
    /\ caller.pc = "idle"
    /\ locks.flag = Free
    /\ is_running' = FALSE
    /\ senders' = [event |-> 0, audio |-> 0]
    /\ audio' = [g \in Sessions |->
                    IF g = handles.audio THEN AbortTask(audio[g]) ELSE audio[g]]
    /\ rec' = [g \in Sessions |->
                    IF g = handles.transcription THEN AbortTask(rec[g]) ELSE rec[g]]
    /\ handles' = [audio |-> 0, transcription |-> 0]
    /\ UNCHANGED <<bufVars, aggVars, vadVars, resVars, config, buffer, locks, chan, events, caller>>

\* stop_streaming_async up to its first await
StopStreamingAsync ==
    /\ caller.pc = "idle"
    /\ locks.flag = Free
    /\ is_running' = FALSE
    /\ senders' = [event |-> 0, audio |-> 0]
    /\ caller' = [caller EXCEPT !.pc = "join_audio"]
    /\ UNCHANGED <<bufVars, aggVars, vadVars, resVars, config, handles, buffer, locks, taskVars>>

\* stop_streaming_async: audio_task_handle.take() and handle.await
JoinAudio ==
    /\ caller.pc = "join_audio"
    /\ handles.audio # 0 => audio[handles.audio].pc \in Terminated
    /\ handles' = [handles EXCEPT !.audio = 0]
    /\ caller' = [caller EXCEPT !.pc = "join_transcription"]
    /\ UNCHANGED <<bufVars, aggVars, vadVars, resVars, config, is_running, senders, buffer, locks, taskVars>>

\* stop_streaming_async: transcription_task_handle.take() and handle.await,
\* then the return
JoinTranscription ==
    /\ caller.pc = "join_transcription"
    /\ handles.transcription # 0 => rec[handles.transcription].pc \in Terminated
    /\ handles' = [handles EXCEPT !.transcription = 0]
    /\ caller' = [caller EXCEPT !.pc = "idle"]
    /\ UNCHANGED <<bufVars, aggVars, vadVars, resVars, config, is_running, senders, buffer, locks, taskVars>>

\* push_audio: Ok after an unbounded send when audio_sender is Some (a send to
\* a channel whose receiver is gone fails and is ignored), Err otherwise
PushAudio ==
    /\ caller.pc = "idle"
    /\ caller.pushes < MaxPushes
    /\ WorkDone < WorkAllowed(caller.starts)
    /\ \E samples \in AudioChunks :
           /\ chan' = IF senders.audio # 0 /\ audio[senders.audio].pc \notin Terminated
                      THEN [chan EXCEPT ![senders.audio] = Append(@, samples)]
                      ELSE chan
           /\ caller' = [caller EXCEPT !.pushes = @ + 1,
                             !.push_result = IF senders.audio # 0 THEN "ok" ELSE "err"]
    /\ UNCHANGED <<bufVars, aggVars, vadVars, resVars, objVars, buffer, locks, events, audio, rec>>

\* set_vad_enabled(enabled): a detector is built from config.vad_threshold
\* when there is none, or the detector is dropped; config.enable_vad follows
SetVadEnabled ==
    /\ caller.pc = "idle"
    /\ caller.sets < MaxSetCalls
    /\ \E enabled \in BOOLEAN :
           config' = [config EXCEPT
                         !.vad = IF enabled /\ ~config.vad.some
                                 THEN SimpleVadNew(config.vad_threshold, BufferSamples)
                                 ELSE IF ~enabled THEN NoVad ELSE @,
                         !.enable_vad = enabled]
    /\ caller' = [caller EXCEPT !.sets = @ + 1]
    /\ UNCHANGED <<bufVars, aggVars, vadVars, resVars, is_running, senders, handles,
                   buffer, locks, taskVars>>

\* set_vad_threshold(threshold): config.vad_threshold is set, and a detector
\* that exists is replaced by one with the new threshold
SetVadThreshold ==
    /\ caller.pc = "idle"
    /\ caller.sets < MaxSetCalls
    /\ \E threshold \in SetThresholds :
           config' = [config EXCEPT
                         !.vad_threshold = threshold,
                         !.vad = IF config.vad.some
                                 THEN SimpleVadNew(threshold, BufferSamples) ELSE @]
    /\ caller' = [caller EXCEPT !.sets = @ + 1]
    /\ UNCHANGED <<bufVars, aggVars, vadVars, resVars, is_running, senders, handles,
                   buffer, locks, taskVars>>

\* clear_buffer
ClearBuffer ==
    /\ caller.pc = "idle"
    /\ locks.buffer = Free
    /\ buffer.samples # <<>>
    /\ buffer' = BufferClear(buffer)
    /\ rec' = [g \in Sessions |-> NoteClear(rec[g])]
    /\ UNCHANGED <<bufVars, aggVars, vadVars, resVars, objVars, locks, chan, events, audio, caller>>

----------------------------------------------------------------------------
(* The texts a recognition pass may produce.  The recognition task trims    *)
(* the text and drops empty results before the aggregator sees it           *)
(* (streaming.rs 380-385), so every hypothesis is trimmed and non-empty.    *)

\* "he", "hello", "hello world"
He == <<104, 101>>
Hello == He \o <<108, 108, 111>>
HelloWorld == Hello \o CharSpace \o <<119, 111, 114, 108, 100>>

Hypotheses ==
    { CharA,                              \* "a"
      CharA \o CharA,                     \* "aa"
      CharA \o CharSpace \o CharA,        \* "a a"
      CharA \o CharSpace \o CharE1,       \* "a e'"  shares "a " with "a a"
      CharE1,                             \* "e'"
      CharE2,                             \* "e`"    shares only the lead byte with "e'"
      CharA \o CharE1,                    \* "ae'"
      CharA \o CharE2,                    \* "ae`"
      CharE1 \o CharA,                    \* "e'a"
      CharB \o CharB,                    \* "bb"   shares nothing with the others
      He, Hello, HelloWorld }

----------------------------------------------------------------------------
(* StreamingResampler and resample  (audio/src/lib.rs 640-850) *)

\* Err(AudioError::InvalidSampleRate { .. })
InvalidSampleRate == "InvalidSampleRate"
\* Err(AudioError::ProcessingError(..))
ProcessingError == "ProcessingError"

ResOk(samples) == [ok |-> TRUE, err |-> "", samples |-> samples]
ResErr(err) == [ok |-> FALSE, err |-> err, samples |-> <<>>]

\* one pass of the resampling engine over a block: the output has the length
\* the rate ratio gives and takes its values from the block in order (the
\* interpolation filter itself is not modelled)
EnginePass(block, from_rate, to_rate) ==
    [i \in 1..((Len(block) * to_rate) \div from_rate) |->
        block[((i - 1) * from_rate) \div to_rate + 1]]

\* a constructor that checks only from_rate
StreamingResamplerNewChecksFrom(from_rate, to_rate) ==
    IF from_rate = 0
    THEN [ok |-> FALSE, err |-> InvalidSampleRate, resampler |-> FALSE,
          from_rate |-> 0, to_rate |-> 0, buffer |-> <<>>, chunk_size |-> 0,
          engine_passes |-> 0, handed |-> <<>>]
    ELSE [ok |-> TRUE, err |-> "", resampler |-> (from_rate # to_rate),
          from_rate |-> from_rate, to_rate |-> to_rate, buffer |-> <<>>,
          chunk_size |-> ChunkSize, engine_passes |-> 0, handed |-> <<>>]

\* StreamingResampler::new: the rates are checked first; no engine is made
\* when the rates are equal.  engine_passes counts the calls made to the
\* engine, handed lists the blocks given to it with process(..)
StreamingResamplerNew(from_rate, to_rate) ==
    IF from_rate = 0 \/ to_rate = 0
    THEN [ok |-> FALSE, err |-> InvalidSampleRate, resampler |-> FALSE,
          from_rate |-> 0, to_rate |-> 0, buffer |-> <<>>, chunk_size |-> 0,
          engine_passes |-> 0, handed |-> <<>>]
    ELSE [ok |-> TRUE, err |-> "", resampler |-> (from_rate # to_rate),
          from_rate |-> from_rate, to_rate |-> to_rate, buffer |-> <<>>,
          chunk_size |-> ChunkSize, engine_passes |-> 0, handed |-> <<>>]

\* a rate test that never takes the pass-through path
SameRateNever(r) == FALSE

\* if self.from_rate == self.to_rate: the pass-through path
SameRate(r) == r.from_rate = r.to_rate

\* the while loop of process_chunk: full chunks are drained from the front of
\* the buffer and passed to the engine; the pass numbered fail_at (0: none)
\* fails, which ends the call with the rest still buffered
RECURSIVE DrainChunks(_, _, _, _)
DrainChunks(r, output, pass, fail_at) ==
    IF Len(r.buffer) < r.chunk_size
    THEN [res |-> r, ret |-> ResOk(output)]
    ELSE LET chunk == SubSeq(r.buffer, 1, r.chunk_size)
             drained == [r EXCEPT
                            !.buffer = SubSeq(@, r.chunk_size + 1, Len(@)),
                            !.engine_passes = @ + 1,
                            !.handed = Append(@, chunk)]
         IN  IF pass = fail_at
             THEN [res |-> drained, ret |-> ResErr(ProcessingError)]
             ELSE DrainChunks(drained,
                              output \o EnginePass(chunk, r.from_rate, r.to_rate),
                              pass + 1, fail_at)

\* process_chunk(input)
ProcessChunk(r, input, fail_at) ==
    IF input = <<>>
    THEN [res |-> r, ret |-> ResOk(<<>>)]
    ELSE IF SameRate(r)
    THEN [res |-> r, ret |-> ResOk(input)]
    ELSE IF ~r.resampler
    THEN [res |-> r, ret |-> ResErr(ProcessingError)]
    ELSE DrainChunks([r EXCEPT !.buffer = @ \o input], <<>>, 1, fail_at)

\* a remainder with the zeros in front of it
PaddedInFront(r) ==
    LastK([i \in 1..r.chunk_size |-> 0] \o r.buffer, r.chunk_size)

\* padded_buffer.resize(chunk_size, 0.0): the remainder padded with zeros, or
\* cut, to chunk_size
Padded(r) ==
    SubSeq(r.buffer \o [i \in 1..r.chunk_size |-> 0], 1, r.chunk_size)

\* finalize(): with equal rates the buffer is returned and cleared; otherwise a
\* non-empty remainder is padded and passed to the engine (pass 1), then the
\* engine is flushed with process_partial (pass 2); the flush of this engine
\* model yields nothing
Finalize(r, fail_at) ==
    IF SameRate(r)
    THEN [res |-> [r EXCEPT !.buffer = <<>>], ret |-> ResOk(r.buffer)]
    ELSE IF ~r.resampler
    THEN [res |-> r, ret |-> ResOk(<<>>)]
    ELSE LET has_rest == r.buffer # <<>>
             rest_out == IF has_rest
                         THEN EnginePass(Padded(r), r.from_rate, r.to_rate)
                         ELSE <<>>
             passed == [r EXCEPT !.engine_passes = @ + 1,
                                 !.handed = Append(@, Padded(r))]
             flushed == [r EXCEPT !.buffer = <<>>,
                                  !.engine_passes = @ + (IF has_rest THEN 2 ELSE 1),
                                  !.handed = IF has_rest THEN Append(@, Padded(r))
                                             ELSE @]
         IN  IF has_rest /\ fail_at = 1
             THEN [res |-> passed, ret |-> ResErr(ProcessingError)]
             ELSE IF fail_at = 2
             THEN [res |-> flushed, ret |-> ResErr(ProcessingError)]
             ELSE [res |-> flushed, ret |-> ResOk(rest_out)]

\* resample(samples, from_rate, to_rate): the rates are checked first; an
\* empty input or equal rates return the input; otherwise one engine pass
\* over the whole input, which may fail
Resample(samples, from_rate, to_rate, fails) ==
    IF from_rate = 0 \/ to_rate = 0
    THEN ResErr(InvalidSampleRate)
    ELSE IF samples = <<>> \/ from_rate = to_rate
    THEN ResOk(samples)
    ELSE IF fails
    THEN ResErr(ProcessingError)
    ELSE ResOk(EnginePass(samples, from_rate, to_rate))

\* the observation of a resampler just made by new(from_rate, to_rate)
NoCall(from_rate, to_rate) ==
    [op |-> "none", input |-> <<>>, before |-> StreamingResamplerNew(0, 0),
     calls |-> 0, new_args |-> [from_rate |-> from_rate, to_rate |-> to_rate],
     fed |-> <<>>, feeds |-> 0, failed |-> FALSE, phase |-> "feeding"]
NoBatch == [called |-> FALSE, samples |-> <<>>, from_rate |-> 0, to_rate |-> 0,
            ret |-> ResOk(<<>>)]

ResIdle ==
    /\ res = StreamingResamplerNew(0, 0)
    /\ res_ret = ResOk(<<>>)
    /\ res_hist = NoCall(0, 0)
    /\ batch_call = NoBatch

\* the observation of a detector on which nothing was called yet
NoVadCall ==
    [op |-> "none", samples |-> <<>>, speech |-> FALSE, panic |-> FALSE,
     segments |-> <<>>]

VadIdle == vad_det = NoVad /\ vad_call = NoVadCall

----------------------------------------------------------------------------
(* SpecBuf: an AudioBuffer and arbitrary push_samples calls *)

BufIdle == buf = AudioBufferNew(0, 0) /\ pushed = <<>>

AggIdle ==
    /\ agg = AggregatorNew(0)
    /\ agg_ret = None
    /\ agg_hist = [calls |-> 0, deltas |-> <<>>, prev_confirmed |-> <<>>,
                   whole |-> <<>>, panicked |-> FALSE, arg_n |-> 0, texts |-> <<>>]

InitBuf ==
    /\ \E sample_rate \in 0..MaxRate, half_secs \in 0..MaxHalfSecs :
           buf = AudioBufferNew(sample_rate, half_secs)
    /\ pushed = <<>>
    /\ AggIdle
    /\ OrchIdle
    /\ ResIdle
    /\ VadIdle

BufPush ==
    /\ \E new_samples \in SeqsUpTo(SampleVals, MaxChunk) :
           /\ Len(pushed) + Len(new_samples) <= MaxPushed
           /\ buf' = PushSamples(buf, new_samples)
           /\ pushed' = pushed \o new_samples
    /\ UNCHANGED <<aggVars, orchVars, resVars, vadVars>>

NextBuf == BufPush

SpecBuf == InitBuf /\ [][NextBuf]_vars

----------------------------------------------------------------------------
(* SpecAgg: a StreamingAggregator and arbitrary hypotheses *)

InitAgg ==
    /\ \E n \in 0..DefaultN :
           /\ agg = AggregatorNew(n)
           /\ agg_hist = [calls |-> 0, deltas |-> <<>>, prev_confirmed |-> <<>>,
                          whole |-> <<>>, panicked |-> FALSE, arg_n |-> n,
                          texts |-> <<>>]
    /\ agg_ret = None
    /\ BufIdle
    /\ OrchIdle
    /\ ResIdle
    /\ VadIdle

\* one call of push_and_confirm(latest); a panic ends the run
AggPush ==
    /\ ~agg_hist.panicked
    /\ agg_hist.calls < MaxCalls
    /\ \E latest \in Hypotheses :
           LET r == PushAndConfirm(agg, latest)
           IN  /\ agg' = r.agg
               /\ agg_ret' = r.ret
               /\ agg_hist' =
                      [calls |-> agg_hist.calls + 1,
                       deltas |-> agg_hist.deltas \o r.ret.text,
                       prev_confirmed |-> agg.confirmed_prefix,
                       whole |-> IF agg_hist.calls = 0 THEN latest
                                 ELSE CommonBytes(agg_hist.whole, latest),
                       panicked |-> r.panic,
                       arg_n |-> agg_hist.arg_n,
                       texts |-> Append(agg_hist.texts, latest)]
    /\ UNCHANGED <<bufVars, orchVars, resVars, vadVars>>

NextAgg == AggPush

SpecAgg == InitAgg /\ [][NextAgg]_vars

----------------------------------------------------------------------------
(* The ingestion task  (streaming.rs 281-311) *)

\* the task is polled after being spawned or after sleep(10 ms): an abort
\* takes effect there, otherwise while *is_running_audio.lock().unwrap()
AudioWake(g) ==
    /\ audio[g].pc \in {"spawned", "sleep"}
    /\ ~audio[g].abort => locks.flag = Free
    /\ audio' = [audio EXCEPT ![g].pc = IF audio[g].abort THEN "aborted"
                                        ELSE IF is_running THEN "drain" ELSE "done"]
    /\ UNCHANGED <<bufVars, aggVars, vadVars, resVars, objVars, buffer, locks, chan, events, rec, caller>>

\* the inner loop of try_recv calls: chunks are taken from the queue while
\* there are any and the batch is shorter than MAX_BATCH_SIZE
RECURSIVE TakeBatch(_, _)
TakeBatch(queue, batch) ==
    IF queue = <<>> \/ Len(batch) >= MAX_BATCH_SIZE
    THEN [queue |-> queue, batch |-> batch]
    ELSE TakeBatch(Tail(queue), batch \o Head(queue))

\* the inner loop: it breaks at MAX_BATCH_SIZE, or on Empty (to the sleep
\* when the batch is empty), or the task returns on Disconnected (no sender
\* and nothing queued), dropping the batch it holds
AudioRecv(g) ==
    /\ audio[g].pc = "drain"
    /\ LET taken == TakeBatch(chan[g], <<>>)
       IN  /\ chan' = [chan EXCEPT ![g] = taken.queue]
           /\ audio' = [audio EXCEPT ![g] =
                  IF Len(taken.batch) >= MAX_BATCH_SIZE
                  THEN [@ EXCEPT !.pc = "write", !.batch = taken.batch]
                  ELSE IF senders.audio # g
                  THEN [@ EXCEPT !.pc = "returned", !.batch = taken.batch]
                  ELSE IF taken.batch = <<>>
                  THEN [@ EXCEPT !.pc = "sleep"]
                  ELSE [@ EXCEPT !.pc = "write", !.batch = taken.batch]]
    /\ UNCHANGED <<bufVars, aggVars, vadVars, resVars, objVars, buffer, locks, events, rec, caller>>

\* a write whose guard is kept in a local that lives until the sleep
GuardAfterWriteHeld(g) == "ingestion"

\* the holder of the buffer mutex once the statement that writes the batch has
\* ended: the guard is a temporary of that statement
GuardAfterWrite(g) == Free

\* buffer.lock().unwrap().push_samples(&batch), then the task reaches the sleep
AudioWrite(g) ==
    /\ audio[g].pc = "write"
    /\ locks.buffer = Free
    /\ buffer' = PushSamples(buffer, audio[g].batch)
    /\ locks' = [locks EXCEPT !.buffer = GuardAfterWrite(g)]
    /\ audio' = [audio EXCEPT ![g].pc = "sleep", ![g].batch = <<>>]
    /\ rec' = [h \in Sessions |-> NoteArrival(rec[h], audio[g].batch)]
    /\ UNCHANGED <<bufVars, aggVars, vadVars, resVars, objVars, chan, events, caller>>

----------------------------------------------------------------------------
(* The recognition task  (streaming.rs 321-420) *)

\* where the task goes when it evaluates while *is_running.lock().unwrap():
\* into sleep(50 ms), or out of the loop
LoopCheckForever == "sleep"

LoopCheck == IF is_running THEN "sleep" ELSE "done"

\* the task is first polled (an abort takes effect there), or it continues
\* the loop after a tick that ended early
RecCheck(g) ==
    /\ rec[g].pc \in {"spawned", "check"}
    /\ LET aborted == rec[g].pc = "spawned" /\ rec[g].abort
       IN  /\ ~aborted => locks.flag = Free
           /\ rec' = [rec EXCEPT ![g].pc = IF aborted THEN "aborted" ELSE LoopCheck]
    /\ UNCHANGED <<bufVars, aggVars, vadVars, resVars, objVars, buffer, locks, chan, events, audio, caller>>

\* a VAD gate that calls recognition on silence outside a segment
SkipSilenceTranscribes(task) ==
    [task |-> [task EXCEPT !.pc = "transcribing"], emitted |-> <<>>]

\* if !has_speech && !speech_detected { continue; }: the tick ends without a
\* recognition call
SkipSilence(task) ==
    [task |-> [task EXCEPT !.pc = "check", !.snapshot = <<>>], emitted |-> <<>>]

\* a timeout test that needs more than silence_timeout
SilenceTimedOutStrict(task) == task.silent_for > SilenceTicks

\* now.duration_since(last_speech_time) >= config.silence_timeout
SilenceTimedOut(task) == task.silent_for >= SilenceTicks

\* a silence branch that also starts a new aggregator
EndSegmentResetsAggregator(task) ==
    [task |-> [task EXCEPT !.speech_detected = FALSE, !.pc = "clear",
                           !.snapshot = <<>>, !.aggregator = AggregatorNew(task.n)],
     emitted |-> <<SpeechEnd, Silence>>]

\* the branch taken on a silence timeout: SpeechEnd and Silence are sent,
\* speech_detected is reset, and the buffer is to be cleared before the
\* continue; the other locals of the task are left alone
EndSegment(task) ==
    [task |-> [task EXCEPT !.speech_detected = FALSE, !.pc = "clear",
                           !.snapshot = <<>>],
     emitted |-> <<SpeechEnd, Silence>>]

\* a VAD block that opens a segment without sending SpeechStart
VadGateNoSpeechStart(task) ==
    LET has_speech == DetectSpeech(task.vad, task.snapshot)
        timed_out == /\ ~has_speech
                     /\ task.speech_detected
                     /\ SilenceTimedOut(task)
    IN  IF has_speech
        THEN [task |-> [task EXCEPT !.speech_detected = TRUE, !.silent_for = 0,
                                    !.pc = "transcribing"],
              emitted |-> <<>>]
        ELSE IF timed_out
        THEN EndSegment(task)
        ELSE IF task.speech_detected
        THEN [task |-> [task EXCEPT !.pc = "transcribing"], emitted |-> <<>>]
        ELSE SkipSilence(task)

\* how the recognition task classifies a snapshot:
\* let has_speech = vad_detector.detect_speech(&samples)
HasSpeech(vad, samples) == DetectSpeech(vad, samples)

\* a task that reads the detector of the transcriber on every tick
TaskVadShared(task) == config.vad

\* the detector a recognition task uses: its own clone, let vad =
\* self.vad.clone(), moved into the task when it is spawned
TaskVad(task) == task.vad

\* the VAD block on a snapshot: SpeechStart on the first speech; after
\* silence_timeout without speech SpeechEnd and Silence, and the buffer is to
\* be cleared; no recognition on silence outside a segment; otherwise
\* transcribe_audio_data is called
VadGate(task) ==
    LET has_speech == HasSpeech(TaskVad(task), task.snapshot)
        timed_out == /\ ~has_speech
                     /\ task.speech_detected
                     /\ SilenceTimedOut(task)
    IN  IF has_speech
        THEN [task |-> [task EXCEPT !.speech_detected = TRUE, !.silent_for = 0,
                                    !.pc = "transcribing"],
              emitted |-> IF task.speech_detected THEN <<>> ELSE <<SpeechStart>>]
        ELSE IF timed_out
        THEN EndSegment(task)
        ELSE IF task.speech_detected
        THEN [task |-> [task EXCEPT !.pc = "transcribing"], emitted |-> <<>>]
        ELSE SkipSilence(task)

\* the body of a due tick up to the recognition call: the block that locks
\* the buffer (too little audio or an empty snapshot continue the loop), then
\* the VAD block when a detector is configured
TickBody(task, b) ==
    IF Len(b.samples) < task.min_audio \/ GetAllSamples(b) = <<>>
    THEN [task |-> [task EXCEPT !.pc = "check"], emitted |-> <<>>]
    ELSE LET snapped == [task EXCEPT !.snapshot = GetAllSamples(b), !.passes = @ + 1,
                                     !.arrived = IF task.mid > 0 THEN @ ELSE <<>>,
                                     !.cleared = task.mid > 0 /\ @,
                                     !.mid = 0]
         IN  IF TaskVad(snapped).some
             THEN VadGate(snapped)
             ELSE [task |-> [snapped EXCEPT !.pc = "transcribing"], emitted |-> <<>>]

\* a snapshot block whose guard outlives the block
GuardAfterSnapshotHeld(g) == "recognition"

\* the holder of the buffer mutex once the block that takes the snapshot is
\* left: the guard is dropped at the end of the block
GuardAfterSnapshot(g) == Free

\* a tick that is always due
ShouldTranscribeAlways(task) == TRUE

\* should_transcribe: now.duration_since(last_transcription) >=
\* config.transcription_interval
ShouldTranscribe(task) == task.elapsed >= IntervalTicks

\* sleep(50 ms) ends after at least one tick, or the abort takes effect there;
\* should_transcribe = now - last_transcription >= transcription_interval;
\* a tick that is not due continues the loop
RecWake(g) ==
    /\ rec[g].pc = "sleep"
    /\ IF rec[g].abort
       THEN /\ rec' = [rec EXCEPT ![g].pc = "aborted"]
            /\ UNCHANGED <<events, locks>>
       ELSE IF PassesTaken >= MaxPasses \/ WorkDone >= WorkAllowed(caller.starts)
       THEN /\ locks.flag = Free
            /\ rec' = [rec EXCEPT ![g].pc = LoopCheck, ![g].last = NoPass]
            /\ UNCHANGED <<events, locks>>
       ELSE \E late \in 1..MaxLateTicks :
               LET woken == [rec[g] EXCEPT
                                !.last = NoPass,
                                !.elapsed = Min(@ + late, IntervalTicks),
                                !.silent_for = IF rec[g].vad.some
                                               THEN Min(@ + late, SilenceTicks) ELSE @]
                   tick == TickBody(woken, buffer)
               IN  IF ~ShouldTranscribe(woken)
                   THEN /\ locks.flag = Free
                        /\ rec' = [rec EXCEPT ![g] = [woken EXCEPT !.pc = LoopCheck]]
                        /\ UNCHANGED <<events, locks>>
                   ELSE /\ locks.buffer = Free
                        /\ locks' = [locks EXCEPT !.buffer = GuardAfterSnapshot(g)]
                        /\ rec' = [rec EXCEPT ![g] = tick.task]
                        /\ events' = [events EXCEPT ![g] = @ \o tick.emitted]
    /\ UNCHANGED <<bufVars, aggVars, vadVars, resVars, objVars, buffer, chan, audio, caller>>

\* buffer_clone.lock().unwrap().clear() after SpeechEnd and Silence, then continue
RecClear(g) ==
    /\ rec[g].pc = "clear"
    /\ locks.buffer = Free
    /\ buffer' = BufferClear(buffer)
    /\ rec' = [h \in Sessions |->
                   IF h = g THEN [rec[g] EXCEPT !.pc = "check"] ELSE NoteClear(rec[h])]
    /\ UNCHANGED <<bufVars, aggVars, vadVars, resVars, objVars, locks, chan, events, audio, caller>>

\* an emptiness test that lets every text through
IsEmptyTextNever(text) == FALSE

\* text.is_empty() on the trimmed text of an Ok result
IsEmptyText(text) == text = <<>>

\* an Err arm that ends the task after reporting the error
ErrArmEndsTask(task) ==
    [aggregator |-> task.aggregator, emitted |-> <<ErrorEvent>>, panic |-> TRUE]

\* the Err(e) arm of the match: one Error event is sent, nothing else changes
ErrArm(task) ==
    [aggregator |-> task.aggregator, emitted |-> <<ErrorEvent>>, panic |-> FALSE]

\* the match on the result of transcribe_audio_data: the aggregator
\* afterwards, the events sent, and whether the task ended in a panic
HandleResult(task, result) ==
    IF ~result.ok
    THEN ErrArm(task)
    ELSE LET text == Trim(result.text)
             r == PushAndConfirm(task.aggregator, text)
         IN  IF IsEmptyText(text)
             THEN [aggregator |-> task.aggregator, emitted |-> <<>>, panic |-> FALSE]
             ELSE IF r.panic
             THEN [aggregator |-> r.agg, emitted |-> <<>>, panic |-> TRUE]
             ELSE IF r.ret.some
             THEN [aggregator |-> r.agg,
                   emitted |-> IF Trim(r.ret.text) # <<>>
                               THEN <<Transcription(r.ret.text)>> ELSE <<>>,
                   panic |-> FALSE]
             ELSE [aggregator |-> r.agg,
                   emitted |-> IF task.n <= 1 THEN <<Transcription(text)>> ELSE <<>>,
                   panic |-> FALSE]

\* transcribe_audio_data returns after some time; the result is handled,
\* last_transcription = now (the time the tick began), and the loop continues
RecDone(g) ==
    /\ rec[g].pc = "transcribing"
    /\ locks.flag = Free
    /\ \E result \in Results, took \in 0..MaxLateTicks :
           LET h == HandleResult(rec[g], result)
           IN  /\ events' = [events EXCEPT ![g] = @ \o h.emitted]
               /\ rec' = [rec EXCEPT
                      ![g].aggregator = h.aggregator,
                      ![g].last = [result |-> IF result.ok THEN "ok" ELSE "err",
                                   text |-> result.text],
                      ![g].snapshot = <<>>,
                      ![g].arrived = IF rec[g].mid > 0 THEN @ ELSE <<>>,
                      ![g].cleared = rec[g].mid > 0 /\ @,
                      ![g].elapsed = Min(took, IntervalTicks),
                      ![g].silent_for = IF rec[g].vad.some
                                        THEN Min(@ + took, SilenceTicks) ELSE @,
                      ![g].pc = IF h.panic THEN "panicked" ELSE LoopCheck]
    /\ UNCHANGED <<bufVars, aggVars, vadVars, resVars, objVars, buffer, locks, chan, audio, caller>>

----------------------------------------------------------------------------
(* Spec: a StreamingTranscriber, its caller and its tasks *)

Init ==
    /\ \E enable_vad \in BOOLEAN, n \in AgreementSettings, min_audio \in 1..MinAudioSamples :
           TranscriberNew(enable_vad, n, min_audio)
    /\ BufIdle
    /\ AggIdle
    /\ ResIdle
    /\ VadIdle

Next ==
    \/ StartStreaming
    \/ StopStreaming
    \/ StopStreamingAsync
    \/ JoinAudio
    \/ JoinTranscription
    \/ PushAudio
    \/ ClearBuffer
    \/ \E g \in Sessions :
           \/ AudioWake(g)
           \/ AudioRecv(g)
           \/ AudioWrite(g)
           \/ RecCheck(g)
           \/ RecWake(g)
           \/ RecClear(g)
           \/ RecDone(g)

Spec == Init /\ [][Next]_vars

----------------------------------------------------------------------------
(* SpecFair: the same transcriber with its tasks scheduled fairly.  Both    *)
(* tasks are spawned on the tokio runtime, which polls a task that can run, *)
(* the timers of sleep(..) fire, and a call of transcribe_audio_data is     *)
(* taken to return; the caller resumes from an await once the handle is     *)
(* ready.  Nothing is assumed about which calls the caller makes.           *)

\* one configuration: VAD enabled, aggregation disabled, min_audio_length of
\* one sample
InitFair ==
    /\ TranscriberNew(TRUE, 1, 1)
    /\ BufIdle
    /\ AggIdle
    /\ ResIdle
    /\ VadIdle

Fairness ==
    /\ \A g \in Sessions :
           /\ WF_vars(AudioWake(g))
           /\ WF_vars(AudioRecv(g))
           /\ WF_vars(AudioWrite(g))
           /\ WF_vars(RecCheck(g))
           /\ WF_vars(RecWake(g))
           /\ WF_vars(RecClear(g))
           /\ WF_vars(RecDone(g))
    /\ WF_vars(JoinAudio)
    /\ WF_vars(JoinTranscription)

SpecFair == InitFair /\ [][Next]_vars /\ Fairness

----------------------------------------------------------------------------
(* SpecCfg: the same transcriber whose caller also reconfigures the VAD     *)

\* start_streaming and push_audio as far as the run goes: one session,
\* MaxCfgPushes chunks
CfgStartStreaming == caller.starts < MaxCfgStarts /\ StartStreaming
CfgPushAudio == caller.pushes < MaxCfgPushes /\ PushAudio

NextCfg ==
    \/ CfgStartStreaming
    \/ StopStreaming
    \/ StopStreamingAsync
    \/ JoinAudio
    \/ JoinTranscription
    \/ CfgPushAudio
    \/ ClearBuffer
    \/ SetVadEnabled
    \/ SetVadThreshold
    \/ \E g \in Sessions :
           \/ AudioWake(g)
           \/ AudioRecv(g)
           \/ AudioWrite(g)
           \/ RecCheck(g)
           \/ RecWake(g)
           \/ RecClear(g)
           \/ RecDone(g)

\* the configuration of SpecFair with a max_audio_length of one sample, or
\* of more samples than the buffer holds
InitCfg ==
    /\ \E max_audio \in {1, MaxAudioSamples} : TranscriberWith(TRUE, 1, 1, max_audio)
    /\ BufIdle
    /\ AggIdle
    /\ ResIdle
    /\ VadIdle

SpecCfg == InitCfg /\ [][NextCfg]_vars

----------------------------------------------------------------------------
(* SpecRes: a StreamingResampler and the batch function, arbitrary calls *)

ResInputs == SeqsUpTo(SampleVals, MaxResInput)

InitRes ==
    /\ \E from_rate \in 0..MaxResRate, to_rate \in 0..MaxResRate :
           /\ res = StreamingResamplerNew(from_rate, to_rate)
           /\ res_hist = NoCall(from_rate, to_rate)
    /\ res_ret = ResOk(<<>>)
    /\ batch_call = NoBatch
    /\ BufIdle
    /\ AggIdle
    /\ OrchIdle
    /\ VadIdle

\* one call of process_chunk(input) on a resampler that was constructed.
\* res_hist also keeps the concatenation of the inputs so far (fed), how many
\* of them were not empty (feeds), whether a call failed, and whether the
\* calls so far are process_chunk calls only ("feeding"), process_chunk calls
\* and then one finalize ("finalized"), or go on after a finalize ("reused")
ResProcessChunk ==
    /\ res.ok
    /\ ~batch_call.called
    /\ res_hist.calls < MaxResCalls
    /\ \E input \in ResInputs, fail_at \in 0..(MaxResInput \div ChunkSize + 1) :
           LET r == ProcessChunk(res, input, fail_at)
           IN  /\ res' = r.res
               /\ res_ret' = r.ret
               /\ res_hist' = [res_hist EXCEPT !.op = "process_chunk",
                                  !.input = input, !.before = res, !.calls = @ + 1,
                                  !.fed = @ \o input,
                                  !.feeds = @ + (IF input = <<>> THEN 0 ELSE 1),
                                  !.failed = @ \/ ~r.ret.ok,
                                  !.phase = IF @ = "feeding" THEN @ ELSE "reused"]
    /\ UNCHANGED <<bufVars, aggVars, vadVars, orchVars, batch_call>>

\* one call of finalize()
ResFinalize ==
    /\ res.ok
    /\ ~batch_call.called
    /\ res_hist.calls < MaxResCalls
    /\ \E fail_at \in 0..2 :
           LET r == Finalize(res, fail_at)
           IN  /\ res' = r.res
               /\ res_ret' = r.ret
               /\ res_hist' = [res_hist EXCEPT !.op = "finalize",
                                  !.input = <<>>, !.before = res, !.calls = @ + 1,
                                  !.failed = @ \/ ~r.ret.ok,
                                  !.phase = IF @ = "feeding" THEN "finalized"
                                            ELSE "reused"]
    /\ UNCHANGED <<bufVars, aggVars, vadVars, orchVars, batch_call>>

\* one call of resample(samples, from_rate, to_rate), in a run that does not
\* use the streaming resampler
BatchResample ==
    /\ ~batch_call.called
    /\ res_hist.calls = 0
    /\ \E samples \in ResInputs, from_rate \in 0..MaxResRate,
          to_rate \in 0..MaxResRate, fails \in BOOLEAN :
           batch_call' = [called |-> TRUE, samples |-> samples, from_rate |-> from_rate,
                     to_rate |-> to_rate,
                     ret |-> Resample(samples, from_rate, to_rate, fails)]
    /\ UNCHANGED <<bufVars, aggVars, vadVars, orchVars, res, res_ret, res_hist>>

NextRes ==
    \/ ResProcessChunk
    \/ ResFinalize
    \/ BatchResample

SpecRes == InitRes /\ [][NextRes]_vars

----------------------------------------------------------------------------
(* SpecVad: a SimpleVad and arbitrary calls of its two detectors *)

\* thresholds tried: a negative one, zero, and the amplitudes
VadThresholds == {[num |-> k, den |-> 1] : k \in (-1)..MaxVadAmp}
\* sample rates tried: 0, and the rates around a whole number of samples per
\* 20 ms window
VadRates == {0} \cup {50 * k - d : k \in 1..MaxVadWindow, d \in {0, 1}}
VadSlices == SeqsUpTo(0..MaxVadAmp, MaxVadLen)

InitVad ==
    /\ \E threshold \in VadThresholds, sample_rate \in VadRates :
           vad_det = SimpleVadNew(threshold, sample_rate)
    /\ vad_call = NoVadCall
    /\ BufIdle
    /\ AggIdle
    /\ OrchIdle
    /\ ResIdle

\* one call of detect_speech(samples); the detector is immutable, so a run
\* makes one call
VadDetectSpeech ==
    /\ vad_call.op = "none"
    /\ \E samples \in VadSlices :
           vad_call' = [op |-> "detect_speech", samples |-> samples,
                        speech |-> DetectSpeech(vad_det, samples),
                        panic |-> FALSE, segments |-> <<>>]
    /\ UNCHANGED <<bufVars, aggVars, orchVars, resVars, vad_det>>

\* one call of detect_speech_segments(samples)
VadDetectSegments ==
    /\ vad_call.op = "none"
    /\ \E samples \in VadSlices :
           LET r == DetectSpeechSegments(vad_det, samples)
           IN  vad_call' = [op |-> "detect_speech_segments", samples |-> samples,
                            speech |-> FALSE, panic |-> r.panic,
                            segments |-> r.segments]
    /\ UNCHANGED <<bufVars, aggVars, orchVars, resVars, vad_det>>

NextVad ==
    \/ VadDetectSpeech
    \/ VadDetectSegments

SpecVad == InitVad /\ [][NextVad]_vars

----------------------------------------------------------------------------
(* Claims about AudioBuffer *)

\* C1: after every push_samples call, for any capacity including 0, the number
\* of buffered samples is at most the capacity.
C1_LenWithinCapacity == Len(buf.samples) <= buf.max_samples

\* C2: after any sequence of pushes, get_all_samples is the last
\* min(L, capacity) samples of the concatenation of everything pushed.
C2_TrailingWindow ==
    GetAllSamples(buf) = LastK(pushed, Min(Len(pushed), buf.max_samples))

----------------------------------------------------------------------------
(* Claims about StreamingAggregator *)

\* the longest common prefix of every hypothesis pushed so far, as
\* longest_common_prefix would compute it, trimmed
WholeHistoryLcp == Trim(IF IsUtf8(agg_hist.whole) THEN agg_hist.whole ELSE <<>>)

\* C3: when the window holds n hypotheses after a push, push_and_confirm
\* returns Some(delta) exactly when the byte-wise LCP of the window, trailing
\* whitespace trimmed, is strictly longer than confirmed_prefix and the delta
\* is not blank; then delta = LCP[len(confirmed_prefix)..] and confirmed_prefix
\* becomes the LCP; otherwise it returns None and confirmed_prefix is unchanged.
C3_ConfirmsByteLcp ==
    (agg_hist.calls > 0 /\ Len(agg.last_texts) = agg.n) =>
        LET lcp == TrimEnd(BytePrefix(agg.last_texts))
            prev == agg_hist.prev_confirmed
            delta == SubSeq(lcp, Len(prev) + 1, Len(lcp))
            grows == Len(lcp) > Len(prev) /\ Trim(delta) # <<>>
        IN  /\ ~agg_hist.panicked
            /\ agg_ret.some <=> grows
            /\ grows => agg_ret = Some(delta) /\ agg.confirmed_prefix = lcp
            /\ Len(lcp) <= Len(prev) => agg.confirmed_prefix = prev

\* C4: whenever confirmed_prefix changes, its previous value is a prefix of
\* its new value.
C4_ConfirmedOnlyExtends ==
    agg.confirmed_prefix # agg_hist.prev_confirmed =>
        IsPrefix(agg_hist.prev_confirmed, agg.confirmed_prefix)

----------------------------------------------------------------------------
(* Claims about the StreamingTranscriber and its tasks *)

\* the step in which recognition task g handles the result of its call
PassEnds(g) == rec[g].pc = "transcribing" /\ rec'[g].last.result # "none"

\* C6: with local_agreement_n <= 1 every successful pass with a non-empty
\* hypothesis sends exactly one Transcription event carrying the trimmed
\* hypothesis, on every pass of the session.
C6_RawHypothesisEveryPass ==
    [][\A g \in Sessions :
          (/\ PassEnds(g)
           /\ rec[g].n <= 1
           /\ rec'[g].last.result = "ok"
           /\ Trim(rec'[g].last.text) # <<>>)
          => events'[g] = Append(events[g], Transcription(Trim(rec'[g].last.text)))]_vars

\* C7: Stopped is terminal: once stopped, no call makes the instance Running
\* again.
C7_StoppedIsTerminal == [][Phase = "Stopped" => Phase' = "Stopped"]_vars

\* C8: push_audio returns Ok exactly when the session is Running; on a
\* never-started or stopped session it returns the error, queues nothing for
\* the ingestion task, leaves the buffer unchanged and sends no event.
C8_PushOkIffRunning ==
    [][caller'.pushes = caller.pushes + 1 =>
          /\ caller'.push_result = (IF Phase = "Running" THEN "ok" ELSE "err")
          /\ Phase # "Running" => chan' = chan /\ buffer' = buffer /\ events' = events]_vars

\* C8 witness: a push was refused on a stopped session and nothing is queued
C8_Witness ==
    /\ Phase = "Stopped"
    /\ caller.pushes > 0
    /\ caller.push_result = "err"
    /\ \A g \in Sessions : chan[g] = <<>>

\* C9: a failed recognition call sends exactly one Error event for the pass,
\* the session stays Running, the buffer and the aggregator are unchanged,
\* and the task goes on to its next tick.
C9_ErrorPassKeepsSession ==
    [][\A g \in Sessions :
          (PassEnds(g) /\ rec'[g].last.result = "err")
          => /\ events'[g] = Append(events[g], ErrorEvent)
             /\ is_running' = is_running
             /\ buffer' = buffer
             /\ rec'[g].aggregator = rec[g].aggregator
             /\ rec'[g].pc = LoopCheck]_vars

\* C9 witness: a running session whose task is back in its loop after two
\* failed passes in a row
C9_Witness ==
    \E g \in Sessions :
        /\ is_running
        /\ rec[g].pc = "sleep"
        /\ rec[g].last.result = "err"
        /\ Len(events[g]) >= 2
        /\ events[g][Len(events[g])] = ErrorEvent
        /\ events[g][Len(events[g]) - 1] = ErrorEvent

InOpenSegment(evs, i) ==
    \E j \in 1..(i - 1) :
        /\ evs[j] = SpeechStart
        /\ \A k \in (j + 1)..(i - 1) : evs[k] # SpeechEnd

\* C11: with VAD enabled, on the event channel of a session every
\* Transcription and every SpeechEnd is preceded by a SpeechStart with no
\* SpeechEnd between that SpeechStart and the event.
C11_SegmentEventsFollowSpeechStart ==
    \A g \in Sessions :
        rec[g].vad.some =>
            \A i \in 1..Len(events[g]) :
                events[g][i].kind \in {"Transcription", "SpeechEnd"}
                    => InOpenSegment(events[g], i)

\* C11 witness: a channel of a session with VAD that carries a Transcription
\* and, after it, the SpeechEnd that closes the segment
C11_Witness ==
    \E g \in Sessions :
        /\ rec[g].vad.some
        /\ \E i, j \in 1..Len(events[g]) :
               /\ i < j
               /\ events[g][i].kind = "Transcription"
               /\ events[g][j] = SpeechEnd

\* whether a segment is open on a channel: a SpeechStart not yet followed by
\* a SpeechEnd
SegmentOpen(evs) == InOpenSegment(evs, Len(evs) + 1)

\* C12: with VAD enabled, no recognition call is in progress on a snapshot
\* classified as silence while no speech segment is open.
C12_NoCallOnSilenceOutsideSegment ==
    \A g \in Sessions :
        (/\ rec[g].pc = "transcribing"
         /\ rec[g].vad.some
         /\ ~DetectSpeech(rec[g].vad, rec[g].snapshot))
        => SegmentOpen(events[g])

\* C12 witness: a session with VAD that never saw speech: its task took a
\* snapshot of a buffer holding only silence and ended the tick without a call
C12_Witness ==
    \E g \in Sessions :
        /\ rec[g].vad.some
        /\ rec[g].passes > 0
        /\ rec[g].pc = "check"
        /\ buffer.samples # <<>>
        /\ ~DetectSpeech(rec[g].vad, buffer.samples)
        /\ events[g] = <<>>

\* C13: no Transcription event carries an empty or whitespace-only text.
C13_NoBlankTranscription ==
    \A g \in Sessions :
        \A i \in 1..Len(events[g]) :
            events[g][i].kind = "Transcription" => Trim(events[g][i].text) # <<>>

\* C13 witness: with aggregation disabled a call returned a whitespace-only
\* text and the session has sent no event
C13_Witness ==
    \E g \in Sessions :
        /\ rec[g].n <= 1
        /\ ~rec[g].vad.some
        /\ rec[g].last.result = "ok"
        /\ rec[g].last.text = CharSpace
        /\ events[g] = <<>>

\* the step in which stop_streaming_async returns after awaiting the handle
\* of the recognition task of the latest session
AsyncStopReturns ==
    /\ caller.pc = "join_transcription"
    /\ caller'.pc = "idle"
    /\ handles.transcription # 0
    /\ handles.transcription = caller.starts

\* C14: when stop_streaming_async returns, is_running is false and both tasks
\* of the session have terminated, each after finishing the iteration it was
\* in: the recognition task left its loop at the loop condition, and the
\* ingestion task ended holding no batch it had not written to the buffer.
C14_AsyncStopDrains ==
    [][AsyncStopReturns =>
          /\ ~is_running'
          /\ audio'[caller.starts].pc \in {"done", "returned"}
          /\ audio'[caller.starts].batch = <<>>
          /\ rec'[caller.starts].pc = "done"]_vars

----------------------------------------------------------------------------
(* Further claims about StreamingAggregator *)

\* C15: over any sequence of push_and_confirm calls the byte length of
\* confirmed_prefix never decreases.
C15_ConfirmedLengthNeverDecreases ==
    Len(agg.confirmed_prefix) >= Len(agg_hist.prev_confirmed)

\* C15 witness: a call replaced confirmed_prefix by a text that does not
\* extend it and is strictly longer
C15_Witness ==
    /\ agg_hist.calls > 0
    /\ agg_hist.prev_confirmed # <<>>
    /\ ~IsPrefix(agg_hist.prev_confirmed, agg.confirmed_prefix)
    /\ Len(agg.confirmed_prefix) > Len(agg_hist.prev_confirmed)

\* C16: each of the first n-1 calls of push_and_confirm returns None and
\* leaves confirmed_prefix empty, n being the window size; with "he", "hello",
\* "hello world" and n = 3 the third call returns Some("he").
C16_NoneUntilWindowFull ==
    /\ agg_hist.calls < agg.n => agg_ret = None /\ agg.confirmed_prefix = <<>>
    /\ (agg.n = 3 /\ agg_hist.calls = 3 /\ agg.last_texts = <<He, Hello, HelloWorld>>)
           => agg_ret = Some(He)

\* C16 witness: the third call with "he", "hello", "hello world" and n = 3
C16_Witness ==
    /\ agg.n = 3
    /\ agg_hist.calls = 3
    /\ agg.last_texts = <<He, Hello, HelloWorld>>
    /\ agg.confirmed_prefix = He

\* C17: StreamingAggregator::new(n) uses the window size max(n, 2), and after
\* every push_and_confirm the window holds the most recent hypotheses, at
\* most that many, in insertion order.
C17_WindowIsRecentHypotheses ==
    /\ agg.n = Max(agg_hist.arg_n, 2)
    /\ agg.last_texts = LastK(agg_hist.texts, Min(Len(agg_hist.texts), agg.n))

\* C17 witness: an aggregator built with n below 2 that has evicted a hypothesis
C17_Witness ==
    /\ agg_hist.arg_n < 2
    /\ Len(agg_hist.texts) > agg.n
    /\ agg_hist.texts[1] # agg.last_texts[1]

----------------------------------------------------------------------------
(* Claims about StreamingResampler and resample *)

\* C18: for a StreamingResampler with from_rate = to_rate, every
\* process_chunk(x) returns x and buffers nothing, finalize returns the
\* remainder left unflushed, and no engine is created or invoked.
C18_IdentityPassesThrough ==
    (res.ok /\ res.from_rate = res.to_rate) =>
        /\ ~res.resampler
        /\ res.engine_passes = 0
        /\ res.buffer = <<>>
        /\ res_hist.op = "process_chunk" =>
               res_ret = ResOk(res_hist.input) /\ res = res_hist.before
        /\ res_hist.op = "finalize" => res_ret = ResOk(res_hist.before.buffer)

\* C18 witness: an identity resampler returned a chunk of several samples
\* unchanged after an earlier finalize
C18_Witness ==
    /\ res.ok
    /\ res.from_rate = res.to_rate
    /\ res_hist.calls = MaxResCalls
    /\ res_hist.op = "process_chunk"
    /\ Len(res_hist.input) > ChunkSize
    /\ res_ret.samples = res_hist.input

\* C19: StreamingResampler::new fails with an invalid-sample-rate error and
\* constructs nothing exactly when either rate is 0, and resample rejects a
\* zero rate the same way whatever its input.
C19_ZeroRateRejected ==
    LET a == res_hist.new_args
    IN  /\ res.ok <=> (a.from_rate # 0 /\ a.to_rate # 0)
        /\ ~res.ok => res.err = InvalidSampleRate /\ ~res.resampler
        /\ (batch_call.called /\ (batch_call.from_rate = 0 \/ batch_call.to_rate = 0))
               => batch_call.ret = ResErr(InvalidSampleRate)

\* C19 witness: new was refused for a zero to_rate with a valid from_rate, and
\* resample refused a zero to_rate on an empty input
C19_Witness ==
    /\ ~res.ok
    /\ res_hist.new_args.from_rate > 0
    /\ res_hist.new_args.to_rate = 0
    /\ batch_call.called
    /\ batch_call.from_rate > 0
    /\ batch_call.to_rate = 0
    /\ batch_call.samples = <<>>

\* C20: between calls the leftover buffer of a StreamingResampler holds fewer
\* than chunk_size samples.
C20_LeftoverBelowChunk == res.ok => Len(res.buffer) < res.chunk_size

----------------------------------------------------------------------------
(* Claims about SimpleVad *)

\* the sum over a slice of sample * sample - t * t
RECURSIVE ExcessEnergy(_, _)
ExcessEnergy(samples, t) ==
    IF samples = <<>> THEN 0
    ELSE Head(samples) * Head(samples) - t * t + ExcessEnergy(Tail(samples), t)

\* whether every sample of a slice has the amplitude a
IsConstant(samples, a) == \A i \in 1..Len(samples) : samples[i] = a

\* C22: detect_speech(samples) is true exactly when samples is non-empty and
\* its RMS is strictly greater than the threshold: a constant input of
\* amplitude a is speech exactly when a is above the threshold, so an RMS equal
\* to the threshold is not speech.
C22_SpeechIffRmsAboveThreshold ==
    vad_call.op = "detect_speech" =>
        LET samples == vad_call.samples
            t == vad_det.threshold.num
        IN  /\ samples = <<>> => ~vad_call.speech
            /\ samples # <<>> =>
                   (vad_call.speech <=> (t < 0 \/ ExcessEnergy(samples, t) > 0))
            /\ \A a \in 0..MaxVadAmp :
                   (samples # <<>> /\ IsConstant(samples, a)) =>
                       (vad_call.speech <=> a > t)

\* C22 witness: a constant input whose amplitude equals a positive threshold
\* was classified as not speech
C22_Witness ==
    /\ vad_call.op = "detect_speech"
    /\ vad_det.threshold.num > 0
    /\ Len(vad_call.samples) >= 2
    /\ IsConstant(vad_call.samples, vad_det.threshold.num)
    /\ ~vad_call.speech

\* C23: detect_speech never returns true for an all-zero input, whatever its
\* length and whatever threshold the detector was constructed with.
C23_SilenceIsNeverSpeech ==
    (vad_call.op = "detect_speech" /\ IsConstant(vad_call.samples, 0))
        => ~vad_call.speech

\* the number of windows of a slice, and whether window i (from 0) is speech
WindowCount(vad, samples) ==
    (Len(samples) + vad.window_size - 1) \div vad.window_size
WindowIsSpeech(vad, samples, i) ==
    DetectSpeech(vad, SubSeq(samples, i * vad.window_size + 1,
                             Min((i + 1) * vad.window_size, Len(samples))))

\* whether windows i..j form a maximal run of speech windows
IsMaximalRun(vad, samples, i, j) ==
    /\ \A k \in i..j : WindowIsSpeech(vad, samples, k)
    /\ i > 0 => ~WindowIsSpeech(vad, samples, i - 1)
    /\ j < WindowCount(vad, samples) - 1 => ~WindowIsSpeech(vad, samples, j + 1)

\* C24: detect_speech_segments returns, in increasing order, exactly the
\* maximal runs of consecutive windows classified as speech, each as a
\* half-open interval between window boundaries, a run that reaches the end of
\* the input ending at len(samples); the segments are non-empty and disjoint,
\* and an empty input gives an empty list.
C24_SegmentsAreMaximalRuns ==
    vad_call.op = "detect_speech_segments" =>
        LET samples == vad_call.samples
            segs == vad_call.segments
            w == vad_det.window_size
            last == WindowCount(vad_det, samples) - 1
            RunOf(i, j) == <<i * w, IF j = last THEN Len(samples) ELSE (j + 1) * w>>
        IN  /\ ~vad_call.panic
            /\ samples = <<>> => segs = <<>>
            /\ \A k \in 1..Len(segs) :
                   /\ segs[k][1] < segs[k][2]
                   /\ k > 1 => segs[k - 1][2] < segs[k][1]
                   /\ \E i, j \in 0..last :
                          /\ i <= j
                          /\ IsMaximalRun(vad_det, samples, i, j)
                          /\ segs[k] = RunOf(i, j)
            /\ \A i, j \in 0..last :
                   (i <= j /\ IsMaximalRun(vad_det, samples, i, j))
                       => \E k \in 1..Len(segs) : segs[k] = RunOf(i, j)

\* C25: an invalid configuration (a zero sample rate, a threshold outside the
\* range of an RMS) is rejected when the component is constructed, so no
\* component ever operates with such a value and no call fails because of it.
C25_InvalidConfigNeverInUse ==
    vad_call.op # "none" =>
        /\ vad_det.sample_rate > 0
        /\ vad_det.threshold.num >= 0
        /\ ~vad_call.panic

----------------------------------------------------------------------------
(* Further claims about the recognition task *)

\* the step in which recognition task g takes a snapshot of the buffer
TakesSnapshot(g) == rec[g].pc = "sleep" /\ rec'[g].passes = rec[g].passes + 1

\* C26: with VAD enabled and a segment open, on a tick whose snapshot is
\* silent and at which silence_timeout has passed since the last tick that saw
\* speech, the task sends SpeechEnd immediately followed by Silence, makes no
\* recognition call, and clears the buffer before it does anything else.
C26_SilenceTimeoutEndsSegment ==
    [][\A g \in Sessions :
          /\ (/\ TakesSnapshot(g)
              /\ rec[g].vad.some
              /\ rec[g].speech_detected
              /\ ~DetectSpeech(rec[g].vad, buffer.samples)
              /\ rec'[g].silent_for >= SilenceTicks)
             => /\ events'[g] = events[g] \o <<SpeechEnd, Silence>>
                /\ rec'[g].pc = "clear"
                /\ ~rec'[g].speech_detected
          /\ (rec[g].pc = "clear" /\ rec'[g].pc # "clear")
             => /\ buffer'.samples = <<>>
                /\ events'[g] = events[g]
                /\ rec'[g].pc = "check"]_vars

\* C26 witness: a segment was closed by SpeechEnd and Silence after a
\* Transcription, and the buffer was cleared by the task
C26_Witness ==
    \E g \in Sessions :
        /\ rec[g].pc = "check"
        /\ ~rec[g].speech_detected
        /\ buffer.samples = <<>>
        /\ Len(events[g]) >= 3
        /\ SubSeq(events[g], Len(events[g]) - 1, Len(events[g])) = <<SpeechEnd, Silence>>
        /\ \E i \in 1..Len(events[g]) : events[g][i].kind = "Transcription"

\* the step in which recognition task g invokes transcribe_audio_data
Invokes(g) == rec[g].pc # "transcribing" /\ rec'[g].pc = "transcribing"

\* C27: the recognition collaborator is invoked only on a tick at which at
\* least transcription_interval has passed since the tick of the previous
\* invocation (since the start of the task for the first), and only on a
\* snapshot of the whole buffer that is not shorter than min_audio_length.
C27_InvokedOnlyWhenDue ==
    [][\A g \in Sessions :
          Invokes(g) =>
              /\ rec'[g].elapsed >= IntervalTicks
              /\ rec'[g].snapshot = buffer.samples
              /\ Len(rec'[g].snapshot) >= rec[g].min_audio]_vars

\* C27 witness: with a min_audio_length of two samples the collaborator is
\* invoked on the first snapshot the task took, which holds two samples
C27_Witness ==
    \E g \in Sessions :
        /\ rec[g].min_audio = 2
        /\ rec[g].pc = "transcribing"
        /\ rec[g].passes = 1
        /\ Len(rec[g].snapshot) = 2
        /\ caller.pushes = 2

\* C28: the transition that sends SpeechEnd and Silence and clears the buffer
\* leaves the window and the confirmed_prefix of the aggregator unchanged.
C28_SegmentEndKeepsAggregator ==
    [][\A g \in Sessions :
          (rec'[g].pc = "clear" \/ rec[g].pc = "clear")
              => rec'[g].aggregator = rec[g].aggregator]_vars

\* C28 witness: a task that has ended a segment and cleared the buffer still
\* holds the hypothesis of that segment in the window of its aggregator
C28_Witness ==
    \E g \in Sessions :
        /\ rec[g].pc = "check"
        /\ buffer.samples = <<>>
        /\ Len(events[g]) >= 2
        /\ SubSeq(events[g], Len(events[g]) - 1, Len(events[g])) = <<SpeechEnd, Silence>>
        /\ rec[g].aggregator.last_texts # <<>>

C30_MidPassSampleInNextSnapshot ==
    [][\A g \in Sessions :
          (Invokes(g) /\ rec[g].mid > 0)
              => LastK(rec'[g].snapshot, Len(rec[g].arrived)) = rec[g].arrived]_vars

\* C30 (amended): the snapshot of the next pass is the whole buffer at that
\* moment, so it includes a sample appended during the previous call unless
\* the buffer was cleared after the sample arrived or later samples pushed it
\* out of the buffer, which keeps the newest max_samples samples.
C30_MidPassSampleInNextSnapshotIfKept ==
    [][\A g \in Sessions :
          (Invokes(g) /\ rec[g].mid > 0) =>
              /\ rec'[g].snapshot = buffer.samples
              /\ (~rec[g].cleared /\ Len(rec[g].arrived) <= buffer.max_samples)
                     => LastK(rec'[g].snapshot, Len(rec[g].arrived)) = rec[g].arrived]_vars

\* C30 witness: a recognition call is in progress on a snapshot that ends
\* with the samples appended to the buffer during the previous call
C30_Witness ==
    \E g \in Sessions :
        /\ rec[g].pc = "transcribing"
        /\ rec[g].passes = 2
        /\ rec[g].mid = 0
        /\ rec[g].arrived # <<>>
        /\ ~rec[g].cleared
        /\ LastK(rec[g].snapshot, Len(rec[g].arrived)) = rec[g].arrived
        /\ Len(rec[g].snapshot) > Len(rec[g].arrived)

----------------------------------------------------------------------------
(* C31 *)

\* a task that was spawned and has not ended
Alive(task) == task.pc \notin Terminated \cup {"unborn"}

AliveIngestion == {g \in Sessions : Alive(audio[g])}
AliveRecognition == {g \in Sessions : Alive(rec[g])}

\* C31: after any sequence of start_streaming, stop_streaming and
\* stop_streaming_async calls, at most one ingestion task and at most one
\* recognition task of the instance are alive at any moment, and while the
\* instance is Running exactly one of each is alive.
C31_OneTaskOfEachKind ==
    /\ Cardinality(AliveIngestion) <= 1
    /\ Cardinality(AliveRecognition) <= 1
    /\ Phase = "Running" =>
           Cardinality(AliveIngestion) = 1 /\ Cardinality(AliveRecognition) = 1

----------------------------------------------------------------------------
(* C32 *)

RECURSIVE Concat(_)
Concat(queue) == IF queue = <<>> THEN <<>> ELSE Head(queue) \o Concat(Tail(queue))

\* the samples push_audio has accepted for session g that its ingestion task
\* has still to append: the batch in the hands of the task, then the chunks
\* queued in the channel.  When the task ends, its batch and the receiver
\* with everything queued are dropped.
InFlight(g) ==
    IF Alive(audio[g]) THEN audio[g].batch \o Concat(chan[g]) ELSE <<>>

\* a step in which session g accepts chunk, or appends the oldest k samples
\* in flight to the buffer, or leaves its samples in flight alone
AcceptsOrAppends(g) ==
    \/ InFlight(g)' = InFlight(g)
    \/ \E chunk \in AudioChunks : InFlight(g)' = InFlight(g) \o chunk
    \/ \E k \in 1..Len(InFlight(g)) :
           /\ Alive(audio[g])'
           /\ InFlight(g)' = SubSeq(InFlight(g), k + 1, Len(InFlight(g)))
           /\ buffer' = PushSamples(buffer, SubSeq(InFlight(g), 1, k))

\* C32: while the instance stays Running (the flag stays set and the session
\* is not stopped), every chunk accepted by push_audio is eventually appended
\* to the buffer by the ingestion task, exactly once, in the order pushed and
\* not interleaved: the samples in flight only grow at the back by an
\* accepted chunk and shrink at the front by what is appended, and they are
\* eventually all appended.
C32_AcceptedChunksReachBuffer ==
    /\ [][\A g \in Sessions :
              (is_running /\ is_running' /\ ~audio[g].abort) => AcceptsOrAppends(g)]_vars
    /\ \A g \in Sessions :
           (InFlight(g) # <<>>) ~> (InFlight(g) = <<>> \/ ~is_running \/ audio[g].abort)

----------------------------------------------------------------------------
(* C33 *)

\* what the VAD block decides for a task with no open segment, by the
\* detector the task was given: the collaborator is called when there is no
\* detector or the snapshot is speech
GateOpens(task, samples) == ~task.vad.some \/ DetectSpeech(task.vad, samples)

----------------------------------------------------------------------------
(* C34 *)

\* C34: the recognition task classifies a snapshot as containing speech
\* exactly when detect_speech_segments returns at least one segment for it,
\* i.e. when at least one window of the snapshot is above the threshold; said
\* of detectors with a window of at least one sample and a threshold that is
\* not negative.
C34_SpeechIffSomeSegment ==
    (/\ vad_call.op = "detect_speech"
     /\ vad_det.window_size > 0
     /\ vad_det.threshold.num >= 0)
        => (HasSpeech(vad_det, vad_call.samples)
                <=> DetectSpeechSegments(vad_det, vad_call.samples).segments # <<>>)

----------------------------------------------------------------------------
(* C35 *)

\* C35: the audio handed to one recognition call is never longer than the
\* configured max_audio_length, whatever buffer_duration and
\* max_audio_length are.
C35_CallWithinMaxAudioLength ==
    \A g \in Sessions :
        rec[g].pc = "transcribing" => Len(rec[g].snapshot) <= config.max_audio

----------------------------------------------------------------------------
(* C36 *)

\* C36: every chunk the ingestion task has taken from the channel is in the
\* buffer when the task ends the iteration (reaches its sleep) or terminates:
\* at those points the task holds no batch it has not written.
C36_NoDequeuedChunkDropped ==
    \A g \in Sessions :
        audio[g].pc \in Terminated \cup {"sleep"} => audio[g].batch = <<>>

----------------------------------------------------------------------------
(* C37 *)

\* C37: for every sequence of valid UTF-8 hypotheses push_and_confirm returns
\* normally: no call panics at the slice that cuts the delta (the offset
\* len(confirmed_prefix) is a character boundary of the trimmed LCP), and the
\* LCP computed for the window is valid text equal to the common byte prefix
\* of the windowed hypotheses.
C37_ReturnsNormallyOnUtf8 ==
    /\ ~agg_hist.panicked
    /\ agg_hist.calls > 0 =>
           /\ IsUtf8(BytePrefix(agg.last_texts))
           /\ LongestCommonPrefix(agg.last_texts) = BytePrefix(agg.last_texts)

----------------------------------------------------------------------------
(* C38 *)

\* C38: after any sequence of push_and_confirm calls the byte length of
\* confirmed_prefix is the sum of the byte lengths of the deltas returned so
\* far, and each delta is exactly the bytes of the new confirmed_prefix from
\* the previously confirmed length on: every byte position of the confirmed
\* text is emitted in one delta, none skipped and none twice.  A call that
\* returns None leaves confirmed_prefix as it was.
C38_ConfirmedLengthIsSumOfDeltas ==
    /\ Len(agg.confirmed_prefix) = Len(agg_hist.deltas)
    /\ agg_hist.calls > 0 =>
           IF agg_ret.some
           THEN agg_ret.text = SubSeq(agg.confirmed_prefix,
                                      Len(agg_hist.prev_confirmed) + 1,
                                      Len(agg.confirmed_prefix))
           ELSE agg.confirmed_prefix = agg_hist.prev_confirmed

\* C38 witness: a second delta was returned, after a first one that confirmed
\* a text the new confirmed_prefix does not extend
C38_Witness ==
    /\ agg_ret.some
    /\ agg_hist.prev_confirmed # <<>>
    /\ Len(agg_hist.deltas) = Len(agg_hist.prev_confirmed) + Len(agg_ret.text)
    /\ ~IsPrefix(agg_hist.prev_confirmed, agg.confirmed_prefix)

----------------------------------------------------------------------------
(* C39 *)

\* s cut into consecutive blocks of k samples; a shorter rest is left out
RECURSIVE FullBlocks(_, _)
FullBlocks(s, k) ==
    IF Len(s) < k THEN <<>>
    ELSE <<SubSeq(s, 1, k)>> \o FullBlocks(SubSeq(s, k + 1, Len(s)), k)

\* what is left of s after its full blocks of k samples
Rest(s, k) == LastK(s, Len(s) % k)

\* s cut into consecutive blocks of k samples, a shorter rest padded with
\* zeros to k samples
PaddedBlocks(s, k) ==
    IF Rest(s, k) = <<>> THEN FullBlocks(s, k)
    ELSE Append(FullBlocks(s, k), Rest(s, k) \o [i \in 1..(k - Len(Rest(s, k))) |-> 0])

\* C39: for a non-identity resampler whose passes all succeed, the blocks
\* handed to the engine by process_chunk calls followed by finalize depend
\* only on the concatenated input: while feeding they are its consecutive
\* full blocks of chunk_size samples, the rest waiting in the buffer; after
\* finalize they are all its blocks, the last partial one padded with zeros.
C39_BlocksDependOnInputOnly ==
    (res.ok /\ res.resampler /\ ~res_hist.failed) =>
        /\ res_hist.phase = "feeding" =>
               /\ res.handed = FullBlocks(res_hist.fed, res.chunk_size)
               /\ res.buffer = Rest(res_hist.fed, res.chunk_size)
        /\ res_hist.phase = "finalized" =>
               /\ res.handed = PaddedBlocks(res_hist.fed, res.chunk_size)
               /\ res.buffer = <<>>

\* C39 witness: finalize has padded and handed over the rest of an input
\* that came in two non-empty pieces and was longer than one block
C39_Witness ==
    /\ res.ok /\ res.resampler /\ ~res_hist.failed
    /\ res_hist.phase = "finalized"
    /\ res_hist.feeds = 2
    /\ Len(res_hist.fed) > res.chunk_size
    /\ res_hist.before.buffer # <<>>
    /\ Len(res.handed) = Len(res_hist.before.handed) + 1

----------------------------------------------------------------------------
(* C40 *)

\* session g is the one the last start_streaming opened, and a stop_streaming
\* or stop_streaming_async has cleared the flag since
StoppedSession(g) == caller.starts = g /\ ~is_running

\* the event channel of session g has no sender left: event_sender does not
\* hold its clone and the recognition task, which owns tx, has terminated;
\* the ingestion task has terminated too.  recv() then returns None once the
\* queued events are read
StreamEnded(g) ==
    /\ audio[g].pc \in Terminated
    /\ rec[g].pc \in Terminated
    /\ senders.event # g

\* C40: after stop_streaming or stop_streaming_async the event stream of the
\* stopped session eventually ends: both of its tasks terminate and every
\* sender of its event channel is dropped.
C40_StreamEndsAfterStop ==
    \A g \in Sessions : StoppedSession(g) ~> StreamEnded(g)

\* C40 witness: stop_streaming_async has returned after a recognition pass;
\* both tasks of the session left their loops and the senders are gone
C40_Witness ==
    /\ caller.starts > 0 /\ caller.pc = "idle" /\ ~is_running
    /\ StreamEnded(caller.starts)
    /\ rec[caller.starts].pc = "done"
    /\ audio[caller.starts].pc \in {"done", "returned"}
    /\ rec[caller.starts].passes > 0

====
